---- MODULE Spec2Model ----
(***************************************************************************)
(* A model of calq: the numeric tower (Value), the tree-walking evaluator, *)
(* the expression parser, the precedence-aware printer, the trig module    *)
(* and the REPL loop of main.rs.                                           *)
(*                                                                         *)
(* Representation.                                                         *)
(*   Rational  <<n, d>>, d > 0, gcd(n, d) = 1 (rug keeps them canonical).  *)
(*   Float     [kind, neg, mag]: kind is "fin", "inf" or "nan"; neg is the *)
(*             sign bit (zeros and infinities are signed); mag a           *)
(*             non-negative Rational holding at most PrecBits significant  *)
(*             bits.                                                       *)
(*   Value     [k |-> "Exact", r |-> Rational]                             *)
(*             [k |-> "Decimal", f |-> Float]                              *)
(*   Expr      [t |-> "Value", v], [t |-> "Symbol", s],                    *)
(*             [t |-> "Add"|"Sub"|"Mul"|"Div", a, b], [t |-> "Neg", x],    *)
(*             [t |-> "Apply", f, args]                                    *)
(*   Text      a sequence of one-character strings.                        *)
(*                                                                         *)
(* TLC's integers are 32 bits wide, so the 100-bit precision of the        *)
(* evaluator is scaled down to PrecBits bits; every operation rounds the   *)
(* way the code does (to nearest, ties to even) at that precision.         *)
(***************************************************************************)
EXTENDS Integers, Sequences, FiniteSets, TLC

VARIABLES
    pc,        \* position of the running program / phase of the pipeline
    line,      \* main.rs: the line read last
    history,   \* main.rs: rl's history entries
    output,    \* main.rs: what was written, <<channel, text>> in order
    expr,      \* the Expr handed to Evaluator::eval
    value,     \* the outcome of Evaluator::eval
    text,      \* the Display output of the evaluated Expr
    reparsed,  \* the outcome of parsing text again
    revalue,   \* the outcome of evaluating the reparsed Expr
    opName,    \* Value::{add,sub,mul,div}: which one
    opA,       \* its receiver
    opB,       \* its argument
    opRes,     \* its outcome
    trigX,     \* trig::sin: the argument
    trigOut    \* trig::sin: the trace of the call

vars == <<pc, line, history, output, expr, value, text, reparsed, revalue,
          opName, opA, opB, opRes, trigX, trigOut>>

replVars == <<line, history, output>>
evalVars == <<expr, value, text, reparsed, revalue>>
opVars   == <<opName, opA, opB, opRes>>
trigVars == <<trigX, trigOut>>

\* The one element of a singleton.  The({F(x) : x \in {v}}) is F(v) with v
\* evaluated once, where LET x == v IN F(x) evaluates v at every use of x.
The(S) == CHOOSE x \in S : TRUE

\* The value of a variable that the running specification does not use.
Unused == <<>>
ReplUnused == line = Unused /\ history = Unused /\ output = Unused
EvalUnused ==
    expr = Unused /\ value = Unused /\ text = Unused /\ reparsed = Unused /\ revalue = Unused
OpUnused == opName = Unused /\ opA = Unused /\ opB = Unused /\ opRes = Unused
TrigUnused == trigX = Unused /\ trigOut = Unused

(***************************************************************************)
(* Bounds of the model.                                                    *)
(***************************************************************************)
\* Significant bits of a Float in the model (the code runs at 100).
PrecBits == 4
\* Integer leaves of the generated expressions are 0..MaxInt.
MaxInt == 3
\* Argument lists of the generated Apply nodes hold 0..MaxArgs arguments.
MaxArgs == 2
\* The generated decimals are m * 2^e for e from -MaxBinExp up.
MaxBinExp == 20
\* The arguments of trig::sin are -MaxTrig..MaxTrig hundredths.
MaxTrig == 700
\* Lines read by one run of the REPL.
MaxLines == 2
\* The significant digits a BigDecimal quotient is carried to (100 in the
\* library).
DivPrecision == 3

(***************************************************************************)
(* Integers and rationals (rug::Integer, rug::Rational).                   *)
(***************************************************************************)
Abs(n) == IF n < 0 THEN -n ELSE n

RECURSIVE Gcd(_, _)
Gcd(a, b) == IF b = 0 THEN a ELSE Gcd(b, a % b)

RECURSIVE Pow(_, _)
Pow(b, n) == IF n = 0 THEN 1 ELSE b * Pow(b, n - 1)

\* The canonical form rug::Rational keeps: lowest terms, positive denominator.
Canon(n, d) ==
    LET g == Gcd(Abs(n), Abs(d))
        s == IF d < 0 THEN -1 ELSE 1
    IN  <<(s * n) \div g, (s * d) \div g>>

RatZero == <<0, 1>>
RatAdd(p, q) == Canon(p[1] * q[2] + q[1] * p[2], p[2] * q[2])
RatSub(p, q) == Canon(p[1] * q[2] - q[1] * p[2], p[2] * q[2])
RatMul(p, q) == Canon(p[1] * q[1], p[2] * q[2])
RatQuo(p, q) == Canon(p[1] * q[2], p[2] * q[1])
RatNeg(p) == <<-p[1], p[2]>>
RatOfInt(n) == <<n, 1>>

(***************************************************************************)
(* Floats (rug::Float over MPFR), rounding to nearest.                     *)
(***************************************************************************)
FZero(neg) == [kind |-> "fin", neg |-> neg, mag |-> RatZero]
FInf(neg) == [kind |-> "inf", neg |-> neg, mag |-> RatZero]
FNaN == [kind |-> "nan", neg |-> FALSE, mag |-> RatZero]

IsZero(f) == f.kind = "fin" /\ f.mag = RatZero

\* The signed rational a finite Float denotes.
FVal(f) == IF f.neg THEN RatNeg(f.mag) ELSE f.mag

\* A positive rational n/d rounded to prec significant bits, ties to even:
\* scale n/d by powers of two into [2^(prec-1), 2^prec), round the quotient to
\* an integer m, and scale m back; e is the exponent of the last kept bit.
RECURSIVE RoundMag(_, _, _, _)
RoundMag(n, d, e, prec) ==
    IF n < d * Pow(2, prec - 1) THEN RoundMag(2 * n, d, e - 1, prec)
    ELSE IF n >= d * Pow(2, prec) THEN RoundMag(n, 2 * d, e + 1, prec)
    ELSE LET m == n \div d
             r == n % d
             up == 2 * r > d \/ (2 * r = d /\ m % 2 = 1)
             k == IF up THEN m + 1 ELSE m
         IN  IF e >= 0 THEN Canon(k * Pow(2, e), 1) ELSE Canon(k, Pow(2, -e))

\* Float::with_val_round(prec, q, Round::Nearest).0 for a signed rational q;
\* zsign is the sign an exact zero result takes.
FromRat(q, zsign, prec) ==
    IF q[1] = 0 THEN FZero(zsign)
    ELSE [kind |-> "fin", neg |-> q[1] < 0,
          mag |-> RoundMag(Abs(q[1]), q[2], 0, prec)]

FloatNeg(a) == IF a.kind = "nan" THEN a ELSE [a EXCEPT !.neg = ~a.neg]

FloatAdd(a, b, prec) ==
    IF a.kind = "nan" \/ b.kind = "nan" THEN FNaN
    ELSE IF a.kind = "inf" /\ b.kind = "inf"
         THEN (IF a.neg = b.neg THEN a ELSE FNaN)
    ELSE IF a.kind = "inf" THEN a
    ELSE IF b.kind = "inf" THEN b
    ELSE FromRat(RatAdd(FVal(a), FVal(b)), a.neg /\ b.neg, prec)

FloatSub(a, b, prec) == FloatAdd(a, FloatNeg(b), prec)

FloatMul(a, b, prec) ==
    IF a.kind = "nan" \/ b.kind = "nan" THEN FNaN
    ELSE IF (a.kind = "inf" /\ IsZero(b)) \/ (IsZero(a) /\ b.kind = "inf") THEN FNaN
    ELSE IF a.kind = "inf" \/ b.kind = "inf" THEN FInf(a.neg # b.neg)
    ELSE FromRat(RatMul(FVal(a), FVal(b)), a.neg # b.neg, prec)

\* Float::div_assign_round: MPFR division, no check of the divisor.
FloatDiv(a, b, prec) ==
    IF a.kind = "nan" \/ b.kind = "nan" THEN FNaN
    ELSE IF a.kind = "inf" /\ b.kind = "inf" THEN FNaN
    ELSE IF IsZero(a) /\ IsZero(b) THEN FNaN
    ELSE IF a.kind = "inf" \/ IsZero(b) THEN FInf(a.neg # b.neg)
    ELSE IF b.kind = "inf" THEN FZero(a.neg # b.neg)
    ELSE FromRat(RatQuo(FVal(a), FVal(b)), a.neg # b.neg, prec)

(***************************************************************************)
(* Value and its operations (expr.rs).                                     *)
(***************************************************************************)
Exact(r) == [k |-> "Exact", r |-> r]
Decimal(f) == [k |-> "Decimal", f |-> f]

Ok(x) == [r |-> "Ok", x |-> x]
Err(e) == [r |-> "Err", x |-> e]
\* todo!() and unwrap failures unwind the stack: no value is returned.
Panic(m) == [r |-> "Panic", x |-> m]

\* PrecisionMode::precision, scaled to the model.
precision == PrecBits

\* A conversion that keeps one bit too few.
conv_short(x) == FromRat(x, FALSE, precision - 1)

\* Evaluator::round is Round::Nearest, which the Float operators implement.
conv(x) == FromRat(x, FALSE, precision)

\* div.rs: CheckedDiv for the exact representation.
checked_div(self, other) ==
    IF other = RatZero THEN Err("DivisionByZero") ELSE Ok(RatQuo(self, other))

do_exact(op, a, b) ==
    CASE op = "add" -> Ok(RatAdd(a, b))
      [] op = "sub" -> Ok(RatSub(a, b))
      [] op = "mul" -> Ok(RatMul(a, b))
      [] op = "div" -> checked_div(a, b)

do_decimal(op, a, b) ==
    CASE op = "add" -> Ok(FloatAdd(a, b, precision))
      [] op = "sub" -> Ok(FloatSub(a, b, precision))
      [] op = "mul" -> Ok(FloatMul(a, b, precision))
      [] op = "div" -> Ok(FloatDiv(a, b, precision))

\* .map(Value::Exact), .map(Value::Decimal)
MapExact(res) == IF res.r = "Ok" THEN Ok(Exact(res.x)) ELSE res
MapDecimal(res) == IF res.r = "Ok" THEN Ok(Decimal(res.x)) ELSE res

perform_op(op, a, b) ==
    CASE a.k = "Exact" /\ b.k = "Exact" -> MapExact(do_exact(op, a.r, b.r))
      [] a.k = "Decimal" /\ b.k = "Exact" -> MapDecimal(do_decimal(op, a.f, conv(b.r)))
      [] a.k = "Exact" /\ b.k = "Decimal" -> MapDecimal(do_decimal(op, conv(a.r), b.f))
      [] a.k = "Decimal" /\ b.k = "Decimal" -> MapDecimal(do_decimal(op, a.f, b.f))

\* impl Neg for Value
ValueNeg(v) ==
    IF v.k = "Exact" THEN Exact(RatNeg(v.r)) ELSE Decimal(FloatNeg(v.f))

(***************************************************************************)
(* Expr and the evaluator (expr.rs).                                       *)
(***************************************************************************)
Val(v) == [t |-> "Value", v |-> v]
Sym(s) == [t |-> "Symbol", s |-> s]
Bin(t, a, b) == [t |-> t, a |-> a, b |-> b]
NegE(x) == [t |-> "Neg", x |-> x]
App(f, args) == [t |-> "Apply", f |-> f, args |-> args]

BinOps == {"Add", "Sub", "Mul", "Div"}

SinName == <<"s", "i", "n">>

\* The Value operation behind each binary node.
OpOf(t) ==
    CASE t = "Add" -> "add" [] t = "Sub" -> "sub"
      [] t = "Mul" -> "mul" [] t = "Div" -> "div"

\* Float::sin_round(Round::Nearest): MPFR's correctly rounded sine.  The model
\* rounds the Taylor polynomial x - x^3/6 + x^5/120, which rounds like the
\* sine itself for the arguments the model feeds it (|x| <= 1).
sin_round(d) ==
    IF d.kind # "fin" THEN FNaN
    ELSE IF IsZero(d) THEN d
    ELSE LET x == FVal(d)
             x2 == RatMul(x, x)
             x3 == RatMul(x2, x)
             x5 == RatMul(x3, x2)
         IN  FromRat(RatAdd(RatSub(x, RatQuo(x3, <<6, 1>>)), RatQuo(x5, <<120, 1>>)),
                     FALSE, precision)

\* .map(Expr::Value)
MapValue(res) == IF res.r = "Ok" THEN Ok(Val(res.x)) ELSE res

RECURSIVE eval(_)
\* The match of eval_binop with the operands of the fallback exchanged.
\* (Expr::Value(a), Expr::Value(b)) => numerical(a, b, self).map(Expr::Value),
\* (a, b) => Ok(fallback(a, b))
binop_match_swapped(t, a, b) ==
    IF a.t = "Value" /\ b.t = "Value"
    THEN MapValue(perform_op(OpOf(t), a.v, b.v))
    ELSE Ok(Bin(t, b, a))

binop_match(t, a, b) ==
    IF a.t = "Value" /\ b.t = "Value"
    THEN MapValue(perform_op(OpOf(t), a.v, b.v))
    ELSE Ok(Bin(t, a, b))

\* Evaluator::eval_binop: both children are evaluated, left first; `?` returns
\* the first failure.
eval_binop(t, a, b) ==
    The({IF ra.r # "Ok" THEN ra
         ELSE The({IF rb.r # "Ok" THEN rb ELSE binop_match(t, ra.x, rb.x)
                   : rb \in {eval(b)}})
         : ra \in {eval(a)}})

\* match self.eval(arg)? { Expr::Value(Value::Decimal(d)) => .., _ => todo!() }
sin_match(ra) ==
    IF ra.r # "Ok" THEN ra
    ELSE IF ra.x.t = "Value" /\ ra.x.v.k = "Decimal"
    THEN Ok(Val(Decimal(sin_round(ra.x.v.f))))
    ELSE Panic("not yet implemented")

\* The Apply arm of Evaluator::eval.
eval_apply(left, args) ==
    The({IF rf.r # "Ok" THEN rf
         ELSE IF rf.x.t = "Symbol" /\ rf.x.s = SinName /\ Len(args) = 1
         THEN The({sin_match(ra) : ra \in {eval(args[1])}})
         ELSE Panic("not yet implemented")
         : rf \in {eval(left)}})

\* The Neg arm of Evaluator::eval.
eval_neg(x) ==
    The({IF rx.r # "Ok" THEN rx
         ELSE IF rx.x.t = "Value" THEN Ok(Val(ValueNeg(rx.x.v)))
         ELSE Ok(NegE(rx.x))
         : rx \in {eval(x)}})

eval(e) ==
    CASE e.t \in {"Value", "Symbol"} -> Ok(e)
      [] e.t \in BinOps -> eval_binop(e.t, e.a, e.b)
      [] e.t = "Neg" -> eval_neg(e.x)
      [] e.t = "Apply" -> eval_apply(e.f, e.args)

(***************************************************************************)
(* PrecedenceContext and Expr::precedence (expr.rs).                       *)
(***************************************************************************)
NoPrecedence == 0
Sum == 1
Product == 2
NegContext == 3
FunctionOrFactorial == 4

\* Sums and products changed places.
ExprPrecedence_swapped(x) ==
    CASE x.t \in {"Value", "Symbol"} -> NoPrecedence
      [] x.t \in {"Mul", "Div"} -> Sum
      [] x.t \in {"Add", "Sub"} -> Product
      [] x.t = "Neg" -> NegContext
      [] x.t = "Apply" -> FunctionOrFactorial

ExprPrecedence(x) ==
    CASE x.t \in {"Value", "Symbol"} -> NoPrecedence
      [] x.t \in {"Mul", "Div"} -> Product
      [] x.t \in {"Add", "Sub"} -> Sum
      [] x.t = "Neg" -> NegContext
      [] x.t = "Apply" -> FunctionOrFactorial

(***************************************************************************)
(* Text: numbers to characters.                                            *)
(***************************************************************************)
DigitChars == <<"0", "1", "2", "3", "4", "5", "6", "7", "8", "9">>
DigitChar(k) == DigitChars[k + 1]

RECURSIVE NatToText(_)
NatToText(n) ==
    IF n < 10 THEN <<DigitChar(n)>> ELSE NatToText(n \div 10) \o <<DigitChar(n % 10)>>

IntToText(n) == IF n < 0 THEN <<"-">> \o NatToText(-n) ELSE NatToText(n)

\* A Display that loses the sign.
RationalToText_unsigned(r) ==
    IF r[2] = 1 THEN NatToText(Abs(r[1]))
    ELSE NatToText(Abs(r[1])) \o <<"/">> \o NatToText(r[2])

\* Display for rug::Rational: "n" when the denominator is 1, else "n/d".
RationalToText(r) ==
    IF r[2] = 1 THEN IntToText(r[1])
    ELSE IntToText(r[1]) \o <<"/">> \o NatToText(r[2])

RECURSIVE Repeat(_, _)
Repeat(c, n) == IF n <= 0 THEN <<>> ELSE <<c>> \o Repeat(c, n - 1)

(***************************************************************************)
(* Float::to_sign_string_exp(10, Some(n)): the sign (true for a negative   *)
(* value), n significant decimal digits rounded to nearest, and the        *)
(* exponent e with value = 0.d1d2...dn * 10^e; zero, infinities and NaN    *)
(* come as a fixed word with no exponent.                                  *)
(***************************************************************************)
\* Option<i32>: None is the empty sequence, Some(e) the sequence of e.
None == <<>>
Some(e) == <<e>>

\* m in [1, 10) as <<n, d>>, with the power of ten that was taken out.
RECURSIVE Normalize10(_, _, _)
Normalize10(n, d, e) ==
    IF n < d THEN Normalize10(10 * n, d, e - 1)
    ELSE IF n >= 10 * d THEN Normalize10(n, 10 * d, e + 1)
    ELSE <<n, d, e>>

\* Long division: the first k digits of n/d (n/d < 10).
RECURSIVE LongDiv(_, _, _)
LongDiv(n, d, k) ==
    IF k = 0 THEN <<>> ELSE <<n \div d>> \o LongDiv(10 * (n % d), d, k - 1)

\* Ten times the remainder that the k-th digit leaves.
RECURSIVE LongDivRest(_, _, _)
LongDivRest(n, d, k) ==
    IF k = 0 THEN n ELSE LongDivRest(10 * (n % d), d, k - 1)

\* Add one in the last place of a digit sequence; the carry out is the head.
RECURSIVE Increment(_)
Increment(ds) ==
    IF ds = <<>> THEN <<1>>
    ELSE IF ds[Len(ds)] < 9 THEN [ds EXCEPT ![Len(ds)] = @ + 1]
    ELSE Increment(SubSeq(ds, 1, Len(ds) - 1)) \o <<0>>

DigitsToText(ds) == [i \in 1..Len(ds) |-> DigitChar(ds[i])]

\* The n digits q of m with what is left of it, rounded to nearest (ties to
\* even); a carry out of the first digit moves the exponent.
to_digits(neg, m, q, rest, n) ==
    LET up == 2 * rest > 10 * m[2] \/ (2 * rest = 10 * m[2] /\ q[n] % 2 = 1)
        ds == IF up THEN Increment(q) ELSE q
    IN  IF Len(ds) > n
        THEN <<neg, DigitsToText(SubSeq(ds, 1, n)), Some(m[3] + 2)>>
        ELSE <<neg, DigitsToText(ds), Some(m[3] + 1)>>

to_sign_string_exp(f, n) ==
    IF f.kind = "nan" THEN <<f.neg, <<"N", "a", "N">>, None>>
    ELSE IF f.kind = "inf" THEN <<f.neg, <<"i", "n", "f">>, None>>
    ELSE IF IsZero(f) THEN <<f.neg, <<"0", ".", "0">>, None>>
    ELSE The({to_digits(f.neg, m, LongDiv(m[1], m[2], n), LongDivRest(m[1], m[2], n), n)
              : m \in {Normalize10(f.mag[1], f.mag[2], 0)}})

(***************************************************************************)
(* The printer (expr/print.rs).                                            *)
(***************************************************************************)
round_digits == 8

\* String::split_off(1): <<what stays, what is returned>>.
SplitOff1(s) == <<SubSeq(s, 1, 1), SubSeq(s, 2, Len(s))>>

\* The match with its second arm tried first.
print_decimal_padded_first(dec) ==
    LET sse == to_sign_string_exp(dec, round_digits)
        sign == IF sse[1] THEN <<>> ELSE <<"-">>
        string == sse[2]
        body ==
            IF sse[3] = None THEN string
            ELSE LET exp == sse[3][1] - 1
                 IN  IF exp >= -5 /\ exp <= -1
                     THEN <<"0", ".">> \o Repeat("0", -exp - 1) \o string
                     ELSE IF exp <= -4
                     THEN SplitOff1(string)[1] \o <<".">> \o SplitOff1(string)[2]
                              \o <<"e">> \o IntToText(exp)
                     ELSE IF exp = 0
                     THEN SplitOff1(string)[1] \o <<".">> \o SplitOff1(string)[2]
                     ELSE string \o Repeat("0", exp)
    IN  sign \o body

\* The Value::Decimal arm of print_with_precedence.
print_decimal(dec) ==
    LET sse == to_sign_string_exp(dec, round_digits)
        sign == IF sse[1] THEN <<>> ELSE <<"-">>
        string == sse[2]
        body ==
            IF sse[3] = None THEN string
            ELSE LET exp == sse[3][1] - 1
                 \* the arms of the match, tried in the order written
                 IN  IF exp <= -4
                     THEN SplitOff1(string)[1] \o <<".">> \o SplitOff1(string)[2]
                              \o <<"e">> \o IntToText(exp)
                     ELSE IF exp >= -5 /\ exp <= -1
                     THEN <<"0", ".">> \o Repeat("0", -exp - 1) \o string
                     ELSE IF exp = 0
                     THEN SplitOff1(string)[1] \o <<".">> \o SplitOff1(string)[2]
                     ELSE string \o Repeat("0", exp)
    IN  sign \o body

RECURSIVE print_with_precedence(_, _)
\* The parameter list of an Apply node, separated by commas.
RECURSIVE print_params(_, _)
print_params(params, n) ==
    IF n > Len(params) THEN <<>>
    ELSE (IF n # 1 THEN <<",">> ELSE <<>>)
         \o print_with_precedence(params[n], NoPrecedence)
         \o print_params(params, n + 1)

OpChar(t) ==
    CASE t = "Add" -> "+" [] t = "Mul" -> "*" [] t = "Div" -> "/" [] t = "Sub" -> "-"

\* Printer::maybe_enter_parens
maybe_enter_parens(inner, parens) ==
    IF parens THEN <<"(">> \o inner \o <<")">> ELSE inner

print_with_precedence(x, p) ==
    LET new_ctxt == ExprPrecedence(x)
    IN  CASE x.t = "Value" ->
                IF x.v.k = "Decimal" THEN print_decimal(x.v.f)
                ELSE RationalToText(x.v.r)
          [] x.t = "Symbol" -> x.s
          [] x.t = "Neg" -> <<"-">> \o print_with_precedence(x.x, new_ctxt)
          [] x.t \in BinOps ->
                maybe_enter_parens(
                    print_with_precedence(x.a, new_ctxt) \o <<OpChar(x.t)>>
                        \o print_with_precedence(x.b, new_ctxt),
                    new_ctxt < p)
          [] x.t = "Apply" ->
                <<"\"">> \o print_with_precedence(x.f, NoPrecedence) \o <<"\"", "(">>
                    \o print_params(x.args, 1) \o <<")">>

\* Printer::print, which Display for Expr calls.
print(x) == print_with_precedence(x, NoPrecedence)

(***************************************************************************)
(* The parser (expr_parser in expr.rs, chumsky combinators).  A parser is  *)
(* an operator of the input s and a position i giving [ok, e, i]: the      *)
(* parsed value and the position after it.  `or` takes the first           *)
(* alternative that succeeds, `repeated` and `or_not` take what they can   *)
(* and give the rest back.                                                 *)
(***************************************************************************)
Fail == [ok |-> FALSE]
Done(e, i) == [ok |-> TRUE, e |-> e, i |-> i]

At(s, i) == IF i <= Len(s) THEN s[i] ELSE "EOF"

IsDigit(c) == c \in {"0", "1", "2", "3", "4", "5", "6", "7", "8", "9"}
IsLetter(c) == c \in {"a", "b", "c", "e", "f", "i", "n", "o", "s", "x", "_"}
DigitVal(c) == CHOOSE k \in 0..9 : DigitChar(k) = c

\* .padded(): whitespace is skipped on both sides of int, atom and op.
RECURSIVE SkipWs(_, _)
SkipWs(s, i) == IF At(s, i) = " " THEN SkipWs(s, i + 1) ELSE i

\* The position after the digits that start at i.
RECURSIVE DigitsEnd(_, _)
DigitsEnd(s, i) == IF IsDigit(At(s, i)) THEN DigitsEnd(s, i + 1) ELSE i

\* text::int(10): a non-zero digit and the digits after it, or a single "0".
\* The position after it, 0 when there is none.
TextInt(s, i) ==
    IF At(s, i) = "0" THEN i + 1
    ELSE IF IsDigit(At(s, i)) THEN DigitsEnd(s, i)
    ELSE 0

RECURSIVE TextToNat(_)
TextToNat(ds) ==
    IF ds = <<>> THEN 0
    ELSE 10 * TextToNat(SubSeq(ds, 1, Len(ds) - 1)) + DigitVal(ds[Len(ds)])

\* Float::parse of int[.dec][e exp] and Evaluator::complete: the decimal
\* numeral's value rounded to the evaluator's precision.
ParseFloat(int, dec, exp) ==
    FromRat(Canon((TextToNat(int) * Pow(10, Len(dec)) + TextToNat(dec)) * Pow(10, TextToNat(exp)),
                  Pow(10, Len(dec))),
            FALSE, precision)

\* The literal rule (`int`).
p_int(s, i0) ==
    LET i == SkipWs(s, i0)
        j == TextInt(s, i)
    IN  IF j = 0 THEN Fail
        ELSE LET hasDot == At(s, j) = "."
                 k == IF hasDot THEN DigitsEnd(s, j + 1) ELSE j
                 dec == IF hasDot THEN SubSeq(s, j + 1, k - 1) ELSE <<>>
                 m == IF At(s, k) = "e" THEN TextInt(s, k + 1) ELSE 0
                 hasExp == m # 0
                 exp == IF hasExp THEN SubSeq(s, k + 1, m - 1) ELSE <<>>
                 n == IF hasExp THEN m ELSE k
                 int == SubSeq(s, i, j - 1)
             IN  Done(Val(IF hasDot \/ hasExp
                          THEN Decimal(ParseFloat(int, dec, exp))
                          ELSE Exact(RatOfInt(TextToNat(int)))),
                      SkipWs(s, n))

\* text::ident(): a letter or underscore, then letters, digits, underscores.
RECURSIVE IdentEnd(_, _)
IdentEnd(s, i) ==
    IF IsLetter(At(s, i)) \/ IsDigit(At(s, i)) THEN IdentEnd(s, i + 1) ELSE i

RECURSIVE p_sum(_, _)
RECURSIVE p_args(_, _, _)

\* ident, as a Symbol
p_ident(s, i) ==
    IF IsLetter(At(s, i))
    THEN Done(Sym(SubSeq(s, i, IdentEnd(s, i) - 1)), SkipWs(s, IdentEnd(s, i)))
    ELSE Fail

\* expr.delimited_by(just('('), just(')')), the ( standing at i
p_parens(s, i) ==
    The({IF inner.ok /\ At(s, inner.i) = ")"
         THEN Done(inner.e, SkipWs(s, inner.i + 1))
         ELSE Fail : inner \in {p_sum(s, i + 1)}})

\* atom = int | ( expr ) | ident, padded
p_atom(s, i0) ==
    LET i == SkipWs(s, i0)
        lit == p_int(s, i)
    IN  IF lit.ok THEN Done(lit.e, SkipWs(s, lit.i))
        ELSE IF At(s, i) = "(" THEN p_parens(s, i)
        ELSE p_ident(s, i)

\* expr.separated_by(just(',')).allow_trailing(): the arguments collected so
\* far are in acc; i is after the last argument.
p_args(s, acc, i) ==
    IF At(s, i) # "," THEN Done(acc, i)
    ELSE The({IF nxt.ok THEN p_args(s, Append(acc, nxt.e), nxt.i)
              ELSE Done(acc, i + 1) : nxt \in {p_sum(s, i + 1)}})

\* the argument list whose ( stands at i
p_arglist(s, i) ==
    The({IF first.ok THEN p_args(s, <<first.e>>, first.i)
         ELSE Done(<<>>, i + 1) : first \in {p_sum(s, i + 1)}})

\* func = atom ( args ) ; calls = func | atom
p_calls(s, i0) ==
    The({IF ~f.ok THEN Fail
         ELSE IF At(s, f.i) # "(" THEN f
         ELSE The({IF At(s, args.i) = ")"
                   THEN Done(App(f.e, args.e), args.i + 1)
                   ELSE f : args \in {p_arglist(s, f.i)}})
         : f \in {p_atom(s, i0)}})

\* unary = op('-').repeated().then(calls).foldr(Neg)
RECURSIVE p_unary(_, _)
p_unary(s, i0) ==
    IF At(s, SkipWs(s, i0)) = "-"
    THEN The({IF r.ok THEN Done(NegE(r.e), r.i) ELSE Fail
              : r \in {p_unary(s, SkipWs(s, SkipWs(s, i0) + 1))}})
    ELSE p_calls(s, i0)

\* the repeated (op unary) pairs of product, folded to the left
RECURSIVE p_product_rest(_, _, _)
p_product_rest(s, lhs, i0) ==
    LET i == SkipWs(s, i0)
        c == At(s, i)
    IN  IF c \in {"*", "/"}
        THEN The({IF rhs.ok
                  THEN p_product_rest(s, Bin(IF c = "*" THEN "Mul" ELSE "Div", lhs, rhs.e), rhs.i)
                  ELSE Done(lhs, i0) : rhs \in {p_unary(s, SkipWs(s, i + 1))}})
        ELSE Done(lhs, i0)

p_product(s, i0) ==
    The({IF lhs.ok THEN p_product_rest(s, lhs.e, lhs.i) ELSE Fail
         : lhs \in {p_unary(s, i0)}})

\* the repeated (op product) pairs of sum, folded to the left
RECURSIVE p_sum_rest(_, _, _)
p_sum_rest(s, lhs, i0) ==
    LET i == SkipWs(s, i0)
        c == At(s, i)
    IN  IF c \in {"+", "-"}
        THEN The({IF rhs.ok
                  THEN p_sum_rest(s, Bin(IF c = "+" THEN "Add" ELSE "Sub", lhs, rhs.e), rhs.i)
                  ELSE Done(lhs, i0) : rhs \in {p_product(s, SkipWs(s, i + 1))}})
        ELSE Done(lhs, i0)

p_sum(s, i0) ==
    The({IF lhs.ok THEN p_sum_rest(s, lhs.e, lhs.i) ELSE Fail
         : lhs \in {p_product(s, i0)}})

\* expr_parser(e).parse(line): expr.then_ignore(end())
expr_parser(s) ==
    The({IF r.ok /\ r.i = Len(s) + 1 THEN Ok(r.e) ELSE Err("parse error")
         : r \in {p_sum(s, 1)}})

(***************************************************************************)
(* The REPL (main in main.rs).  One action is one turn of the loop: the    *)
(* line is read, entered in the history, parsed, evaluated and the outcome *)
(* written.                                                                *)
(***************************************************************************)
\* The lines the model types at the prompt.
Lines ==
    { <<"s", "i", "n", "(", "0", ")">>,
      <<"f", "o", "o", "(", "1", ",", "2", ")">>,
      <<"1", "/", "0">>,
      <<"1", "/", "2", "+", "1", "/", "3">>,
      <<"2", ".", "5", "*", "2">>,
      <<"-", "(", "3", "+", "4", ")">>,
      <<"s", "i", "n", "(", "0", ".", "5", ")">>,
      <<"s", "i", "n", "(", "0", ".", ")">>,
      <<"1", ".", "0", "/", "0", ".", "0">>,
      <<"1", "+">>,
      <<"a", "+", "1">>,
      <<"s", "i", "n", "(", "1", ",", "2", ")">>,
      <<"2", "(", "3", ")">>,
      <<"s", "i", "n", "(", "a", ")">>,
      <<" ", "1", " ", "-", " ", "2", " ">>,
      <<"1", "e", "2">>,
      <<"a", "-", "(", "b", "-", "c", ")">>,
      <<"3", "*", "(", "1", "+", "2", ")">>,
      <<>> }

\* DefaultEditor::add_history_entry: empty lines and a repetition of the last
\* entry are not entered.
add_history_entry(h, l) ==
    IF l = <<>> \/ (h # <<>> /\ h[Len(h)] = l) THEN h ELSE Append(h, l)

InitRepl ==
    /\ pc = "readline"
    /\ line = <<>>
    /\ history = <<>>
    /\ output = <<>>
    /\ expr = Unused
    /\ value = Unused
    /\ text = Unused
    /\ reparsed = Unused
    /\ revalue = Unused
    /\ OpUnused
    /\ TrigUnused

\* Ok(line) => { ... }
ReadLine(l) ==
    /\ pc = "readline"
    /\ Len(output) < MaxLines
    /\ line' = l
    /\ history' = add_history_entry(history, l)
    /\ expr' = expr_parser(l)
    /\ IF expr'.r # "Ok"
       THEN \* the parse errors are written, `continue`
            /\ value' = value
            /\ output' = Append(output, <<"stderr", expr'.x>>)
            /\ pc' = "readline"
       ELSE /\ value' = eval(expr'.x)
            /\ CASE value'.r = "Ok" ->
                       /\ output' = Append(output, <<"stdout", print(value'.x)>>)
                       /\ pc' = "readline"
                 [] value'.r = "Err" ->
                       /\ output' = Append(output, <<"stderr", value'.x>>)
                       /\ pc' = "readline"
                 [] value'.r = "Panic" ->
                       \* the panic unwinds main: the process aborts
                       /\ output' = Append(output, <<"stderr", value'.x>>)
                       /\ pc' = "panicked"
    /\ UNCHANGED <<text, reparsed, revalue, opVars, trigVars>>

\* Err(ReadlineError::Interrupted | ReadlineError::Eof) => break, then Ok(())
ReadInterruptedOrEof ==
    /\ pc = "readline"
    /\ pc' = "exited"
    /\ UNCHANGED <<replVars, evalVars, opVars, trigVars>>

\* Err(e) => return Err(e.into())
ReadError ==
    /\ pc = "readline"
    /\ pc' = "failed"
    /\ UNCHANGED <<replVars, evalVars, opVars, trigVars>>

NextRepl ==
    \/ \E l \in Lines : ReadLine(l)
    \/ ReadInterruptedOrEof
    \/ ReadError

Spec == InitRepl /\ [][NextRepl]_vars

(***************************************************************************)
(* The Value operations on their own: every operator over every pair of    *)
(* operands drawn from a bounded set of exact and decimal values.          *)
(***************************************************************************)
ValueOps == {"add", "sub", "mul", "div"}

Rationals == {Canon(n, d) : n \in -MaxInt..MaxInt, d \in 1..MaxInt}

ValueSet ==
    {Exact(r) : r \in Rationals}
        \cup {Decimal(FromRat(r, FALSE, PrecBits)) : r \in Rationals}
        \cup {Decimal(FZero(TRUE))}

InitValue ==
    /\ pc = "operands"
    /\ opName \in ValueOps
    /\ opA \in ValueSet
    /\ opB \in ValueSet
    /\ opRes = Unused
    /\ ReplUnused
    /\ EvalUnused
    /\ TrigUnused

\* Value::add, Value::sub, Value::mul, Value::div
ValueOp ==
    /\ pc = "operands"
    /\ opRes' = perform_op(opName, opA, opB)
    /\ pc' = "applied"
    /\ UNCHANGED <<opName, opA, opB, replVars, evalVars, trigVars>>

NextValue == ValueOp

SpecValue == InitValue /\ [][NextValue]_vars

BothExact == opA.k = "Exact" /\ opB.k = "Exact"

\* The divisor is the zero of its own representation.
DivisorIsZero ==
    IF opB.k = "Exact" THEN opB.r = RatZero ELSE IsZero(opB.f)

\* C2: division fails with DivisionByZero whenever the divisor is the zero of
\* its representation, in all four operand combinations; it succeeds with a
\* non-zero divisor, and no result is an infinity or a NaN.
C2_CheckedDivision ==
    (pc = "applied" /\ opName = "div") =>
        /\ DivisorIsZero => (opRes.r = "Err" /\ opRes.x = "DivisionByZero")
        /\ ~DivisorIsZero => opRes.r = "Ok"
        /\ (opRes.r = "Ok" /\ opRes.x.k = "Decimal") => opRes.x.f.kind = "fin"

\* r is the rational a op b, in lowest terms.
IsExactResult(op, a, b, r) ==
    /\ r[2] > 0
    /\ Gcd(Abs(r[1]), r[2]) = 1
    /\ CASE op = "add" -> r[1] * (a[2] * b[2]) = (a[1] * b[2] + b[1] * a[2]) * r[2]
         [] op = "sub" -> r[1] * (a[2] * b[2]) = (a[1] * b[2] - b[1] * a[2]) * r[2]
         [] op = "mul" -> r[1] * (a[2] * b[2]) = (a[1] * b[1]) * r[2]
         [] op = "div" -> r[1] * (a[2] * b[1]) = (a[1] * b[2]) * r[2]

\* An Exact operand converted at the evaluator's precision, rounding to nearest.
Promoted(v) ==
    IF v.k = "Exact" THEN Decimal(FromRat(v.r, FALSE, PrecBits)) ELSE v

\* C3: an operation returns an Exact value exactly when both operands are
\* Exact, and then the exact rational result; with a Decimal operand the result
\* is Decimal and is what the operation gives on the operands with the Exact
\* one converted to Decimal first, in either operand order.
C3_Promotion ==
    pc = "applied" =>
        /\ opRes.r = "Ok" => (opRes.x.k = "Exact" <=> BothExact)
        /\ (BothExact /\ opRes.r = "Ok") => IsExactResult(opName, opA.r, opB.r, opRes.x.r)
        /\ ~BothExact =>
              /\ opRes.r = "Ok"
              /\ opRes.x.k = "Decimal"
              /\ opRes = perform_op(opName, Promoted(opA), Promoted(opB))

\* A Decimal operand met an Exact one that the conversion has to round.
C3_Witness ==
    /\ pc = "applied"
    /\ opA.k = "Decimal"
    /\ opB = Exact(<<1, 3>>)
    /\ opRes.r = "Ok"
    /\ opRes.x.k = "Decimal"

(***************************************************************************)
(* The pipeline on generated expressions: eval, Display, parse, eval.      *)
(***************************************************************************)
InitPipeline(exprs) ==
    /\ pc = "built"
    /\ expr \in exprs
    /\ value = Unused
    /\ text = Unused
    /\ reparsed = Unused
    /\ revalue = Unused
    /\ ReplUnused
    /\ OpUnused
    /\ TrigUnused

\* evaluator.eval(exp)
Evaluate ==
    /\ pc = "built"
    /\ value' = eval(expr)
    /\ pc' = "evaluated"
    /\ UNCHANGED <<expr, text, reparsed, revalue, replVars, opVars, trigVars>>

\* println!("{value}") of the evaluated expression
Display ==
    /\ pc = "evaluated"
    /\ value.r = "Ok"
    /\ text' = print(value.x)
    /\ pc' = "printed"
    /\ UNCHANGED <<expr, value, reparsed, revalue, replVars, opVars, trigVars>>

\* Display of the expression as built
Show ==
    /\ pc = "built"
    /\ text' = print(expr)
    /\ pc' = "shown"
    /\ UNCHANGED <<expr, value, reparsed, revalue, replVars, opVars, trigVars>>

\* expr_parser on the printed text
Reread ==
    /\ pc \in {"printed", "shown"}
    /\ reparsed' = expr_parser(text)
    /\ pc' = "reread"
    /\ UNCHANGED <<expr, value, text, revalue, replVars, opVars, trigVars>>

\* evaluator.eval on what the printed text parsed to
Reevaluate ==
    /\ pc = "reread"
    /\ reparsed.r = "Ok"
    /\ revalue' = eval(reparsed.x)
    /\ pc' = "reevaluated"
    /\ UNCHANGED <<expr, value, text, reparsed, replVars, opVars, trigVars>>

Nodes(S, T) == {Bin(t, x, y) : t \in BinOps, x \in S, y \in T}
Negs(S) == {NegE(x) : x \in S}
IntLeaf(n) == Val(Exact(RatOfInt(n)))
DecLeaf(n, d) == Val(Decimal(FromRat(Canon(n, d), FALSE, PrecBits)))
SymA == Sym(<<"a">>)
SymB == Sym(<<"b">>)
SymSin == Sym(SinName)
SymFoo == Sym(<<"f", "o", "o">>)

(***************************************************************************)
(* Apply nodes: every callee of Callees over every argument list.          *)
(***************************************************************************)
Callees ==
    {SymSin, SymFoo, IntLeaf(1), NegE(SymSin), App(SymSin, <<DecLeaf(1, 2)>>)}

ArgSet ==
    {IntLeaf(0), IntLeaf(1), DecLeaf(1, 2), DecLeaf(0, 1), SymA,
     Bin("Mul", DecLeaf(1, 2), IntLeaf(1)), App(SymFoo, <<>>)}

ArgLists == UNION {[1..n -> ArgSet] : n \in 0..MaxArgs}

ApplyExprs == {App(f, args) : f \in Callees, args \in ArgLists}

EvalExprs ==
    ApplyExprs \cup Negs(ApplyExprs) \cup Nodes(ApplyExprs, {IntLeaf(1)})

InitEval == InitPipeline(EvalExprs)
NextEval == Evaluate \/ Display
SpecEval == InitEval /\ [][NextEval]_vars

\* What an Apply node reduces through: the callee is the symbol sin, there is
\* one argument, and it reduces to a Decimal value.
Supported(e) ==
    /\ eval(e.f).r = "Ok"
    /\ eval(e.f).x = SymSin
    /\ Len(e.args) = 1
    /\ eval(e.args[1]).r = "Ok"
    /\ eval(e.args[1]).x.t = "Value"
    /\ eval(e.args[1]).x.v.k = "Decimal"

ChildrenReduce(e) ==
    /\ eval(e.f).r = "Ok"
    /\ \A i \in 1..Len(e.args) : eval(e.args[i]).r = "Ok"

\* C1: an Apply node of any other combination (unknown callee, wrong arity, an
\* Exact or symbolic argument to sin, a callee that is no bare symbol) makes
\* eval return the NotImplemented failure to its caller.
C1_NotImplemented ==
    (pc = "evaluated" /\ expr.t = "Apply" /\ ChildrenReduce(expr) /\ ~Supported(expr))
        => (value.r = "Err" /\ value.x = "NotImplemented")

(***************************************************************************)
(* Partial evaluation: trees over symbols and values, evaluated.           *)
(***************************************************************************)
PartialLeaves == {SymA, IntLeaf(0), IntLeaf(1), DecLeaf(1, 2)}
PartialDepth1 ==
    PartialLeaves \cup Nodes(PartialLeaves, PartialLeaves) \cup Negs(PartialLeaves)
PartialExprs == Nodes(PartialDepth1, PartialDepth1) \cup Negs(PartialDepth1)

InitPartial == InitPipeline(PartialExprs)
NextPartial == Evaluate \/ Display
SpecPartial == InitPartial /\ [][NextPartial]_vars

\* The tree holds a symbol.
RECURSIVE HasSymbol(_)
HasSymbol(x) ==
    CASE x.t = "Symbol" -> TRUE
      [] x.t = "Value" -> FALSE
      [] x.t \in BinOps -> HasSymbol(x.a) \/ HasSymbol(x.b)
      [] x.t = "Neg" -> HasSymbol(x.x)

\* Some division in the tree has two operands that reduce to Exact values,
\* the divisor to zero.
RECURSIVE HasExactZeroDivision(_)
HasExactZeroDivision(x) ==
    CASE x.t \in {"Symbol", "Value"} -> FALSE
      [] x.t = "Neg" -> HasExactZeroDivision(x.x)
      [] x.t \in BinOps ->
            \/ HasExactZeroDivision(x.a)
            \/ HasExactZeroDivision(x.b)
            \/ /\ x.t = "Div"
               /\ eval(x.a).r = "Ok" /\ eval(x.b).r = "Ok"
               /\ eval(x.a).x.t = "Value" /\ eval(x.b).x.t = "Value"
               /\ eval(x.a).x.v.k = "Exact" /\ eval(x.b).x.v.k = "Exact"
               /\ eval(x.b).x.v.r = RatZero

\* Both children of the binary node reduce, one of them not to a Value.
PartiallyReducible(x) ==
    /\ x.t \in BinOps
    /\ eval(x.a).r = "Ok" /\ eval(x.b).r = "Ok"
    /\ (eval(x.a).x.t # "Value" \/ eval(x.b).x.t # "Value")

\* C11: a binary node whose children both evaluate without failure, one of
\* them not to a Value leaf, evaluates to the node of the same operator over
\* the reduced left and right children in their order; an evaluation fails
\* only through a division of two values, never through a symbol.
C11_PartialEvaluation ==
    pc = "evaluated" =>
        /\ PartiallyReducible(expr) =>
              /\ value.r = "Ok"
              /\ value.x.t = expr.t
              /\ value.x.a = eval(expr.a).x
              /\ value.x.b = eval(expr.b).x
              /\ HasSymbol(value.x)
        /\ value.r # "Ok" => (value.r = "Err" /\ HasExactZeroDivision(expr))

\* (a + 1) / (1 - 1): the dividend keeps its symbol, the divisor reduced to
\* the zero Value, and the division is returned, not refused.
C11_Witness ==
    /\ pc = "evaluated"
    /\ expr = Bin("Div", Bin("Add", SymA, IntLeaf(1)), Bin("Sub", IntLeaf(1), IntLeaf(1)))
    /\ value.r = "Ok"
    /\ value.x = Bin("Div", Bin("Add", SymA, IntLeaf(1)), IntLeaf(0))

(***************************************************************************)
(* The REPL's claims.                                                      *)
(***************************************************************************)
SinZeroText == <<"s", "i", "n", "(", "0", ")">>

\* C4: the line "sin(0)" parses, evaluates without failure, and the value is
\* the leaf Decimal 0.
C4_SinZero ==
    (Len(output) > 0 /\ line = SinZeroText) =>
        /\ expr.r = "Ok"
        /\ value.r = "Ok"
        /\ value.x = Val(Decimal(FZero(FALSE)))

\* C5: an evaluation failure is reported and the loop reads on; the process
\* ends only by interrupt, end of input or an error of the line reader.
C5_ReplGoesOn ==
    /\ pc \in {"readline", "exited", "failed"}
    /\ (Len(output) > 0 /\ expr.r = "Ok" /\ value.r # "Ok") =>
            output[Len(output)][1] = "stderr"

(***************************************************************************)
(* Printing and parsing back: trees over symbols and integer leaves.       *)
(***************************************************************************)
PrintLeaves == {SymA, SymB} \cup {IntLeaf(n) : n \in 0..MaxInt}

PrintDepth1 ==
    Nodes(PrintLeaves, PrintLeaves) \cup Negs(PrintLeaves)
        \cup {App(SymFoo, <<x>>) : x \in PrintLeaves}

PrintExprs ==
    PrintLeaves \cup PrintDepth1
        \cup Nodes(PrintDepth1, PrintLeaves) \cup Nodes(PrintLeaves, PrintDepth1)
        \cup Negs(PrintDepth1)
        \cup {App(SymFoo, <<x>>) : x \in PrintDepth1}

InitPrint == InitPipeline(PrintExprs)
NextPrint == Show \/ Reread
SpecPrint == InitPrint /\ [][NextPrint]_vars

\* The ladder as the claim gives it.
Level(x) ==
    CASE x.t \in {"Value", "Symbol"} -> 0
      [] x.t \in {"Add", "Sub"} -> 1
      [] x.t \in {"Mul", "Div"} -> 2
      [] x.t = "Neg" -> 3
      [] x.t = "Apply" -> 4

\* Every subtree of x with the level its position requires, x itself standing
\* where p is required: operands stand at their parent's level, a callee and
\* the arguments of a call at the lowest.
RECURSIVE Positions(_, _)
Positions(x, p) ==
    {<<x, p>>} \cup
        CASE x.t \in BinOps -> Positions(x.a, Level(x)) \cup Positions(x.b, Level(x))
          [] x.t = "Neg" -> Positions(x.x, Level(x))
          [] x.t = "Apply" ->
                Positions(x.f, 0) \cup UNION {Positions(x.args[i], 0) : i \in 1..Len(x.args)}
          [] OTHER -> {}

\* The text of x where p is required is its text in parentheses.
Wrapped(x, p) ==
    print_with_precedence(x, p) = <<"(">> \o print_with_precedence(x, 0) \o <<")">>

\* C6 as stated: every subtree is wrapped exactly when its own level is
\* strictly lower than the level its position requires.
C6_WrappedIffLower ==
    pc = "shown" =>
        \A sp \in Positions(expr, 0) : Wrapped(sp[1], sp[2]) <=> Level(sp[1]) < sp[2]

\* C6: a binary subtree is wrapped exactly when its own level is strictly lower
\* than the level its position requires; a literal, a symbol, a Neg and an
\* Apply subtree is never wrapped.
C6_BinaryWrappedIffLower ==
    pc = "shown" =>
        \A sp \in Positions(expr, 0) :
            Wrapped(sp[1], sp[2]) <=> (sp[1].t \in BinOps /\ Level(sp[1]) < sp[2])

\* Mul(Add(a, b), a) is printed "(a+b)*a".
C6_Witness ==
    /\ pc = "shown"
    /\ expr = Bin("Mul", Bin("Add", SymA, SymB), SymA)
    /\ text = <<"(", "a", "+", "b", ")", "*", "a">>

RECURSIVE ApplyFree(_)
ApplyFree(x) ==
    CASE x.t \in BinOps -> ApplyFree(x.a) /\ ApplyFree(x.b)
      [] x.t = "Neg" -> ApplyFree(x.x)
      [] x.t = "Apply" -> FALSE
      [] OTHER -> TRUE

\* C7: the printed text of a tree without Apply parses, and to the tree that
\* was printed.
C7_Reparseable ==
    (pc = "reread" /\ ApplyFree(expr)) => (reparsed.r = "Ok" /\ reparsed.x = expr)

(***************************************************************************)
(* Integer-only expressions through the whole pipeline.                    *)
(***************************************************************************)
IntLeaves == {IntLeaf(n) : n \in 0..MaxInt}
IntDepth1 == IntLeaves \cup Nodes(IntLeaves, IntLeaves) \cup Negs(IntLeaves)
IntExprs == IntDepth1 \cup Nodes(IntDepth1, IntDepth1) \cup Negs(IntDepth1)

InitInt == InitPipeline(IntExprs)
NextInt == Evaluate \/ Display \/ Reread \/ Reevaluate
SpecInt == InitInt /\ [][NextInt]_vars

\* C8: an integer-only expression that evaluates gives an Exact value; its
\* printed text parses, and evaluates to the same value.
C8_ExactRoundTrip ==
    /\ (pc \in {"evaluated", "printed", "reread", "reevaluated"} /\ value.r = "Ok") =>
            (value.x.t = "Value" /\ value.x.v.k = "Exact")
    /\ pc \in {"reread", "reevaluated"} => reparsed.r = "Ok"
    /\ pc = "reevaluated" => revalue = value

\* The negative fraction -5/6 went round.
C8_Witness ==
    /\ pc = "reevaluated"
    /\ value = Ok(Val(Exact(<<-5, 6>>)))
    /\ text = <<"-", "5", "/", "6">>
    /\ revalue = value

(***************************************************************************)
(* Decimal values through the printer.                                     *)
(***************************************************************************)
DecimalMags ==
    {Canon(m * Pow(2, MaxBinExp + e), Pow(2, MaxBinExp)) :
        m \in Pow(2, PrecBits - 1)..(Pow(2, PrecBits) - 1), e \in -MaxBinExp..4}

DecimalFloats ==
    {[kind |-> "fin", neg |-> n, mag |-> q] : n \in BOOLEAN, q \in DecimalMags}
        \cup {FZero(FALSE), FZero(TRUE), FInf(FALSE), FInf(TRUE), FNaN}

DecimalExprs == {Val(Decimal(f)) : f \in DecimalFloats}

InitDecimal == InitPipeline(DecimalExprs)
NextDecimal == Show
SpecDecimal == InitDecimal /\ [][NextDecimal]_vars

\* The printed text without its sign character.
Unsigned(t) == IF t # <<>> /\ t[1] = "-" THEN Tail(t) ELSE t

\* The digits of the shown value rounded to 8 significant digits, and the
\* power of ten of the leading digit.
ShownDigits == to_sign_string_exp(expr.v.f, 8)[2]
ShownExp == to_sign_string_exp(expr.v.f, 8)[3][1] - 1
ShownIsNumber ==
    pc = "shown" /\ expr.v.f.kind = "fin" /\ expr.v.f.mag # RatZero

Scientific(ds, e) == <<ds[1], ".">> \o Tail(ds) \o <<"e">> \o IntToText(e)
ZeroPadded(ds, e) == <<"0", ".">> \o Repeat("0", -e - 1) \o ds
PointAfterFirst(ds) == <<ds[1], ".">> \o Tail(ds)
TrailingZeros(ds, e) == ds \o Repeat("0", e)

\* C9 as stated: the notation follows the table, its second row for every
\* exponent in [-5, -1].
C9_TableAsStated ==
    ShownIsNumber =>
        /\ ShownExp <= -4 => Unsigned(text) = Scientific(ShownDigits, ShownExp)
        /\ (ShownExp >= -5 /\ ShownExp <= -1) =>
                Unsigned(text) = ZeroPadded(ShownDigits, ShownExp)
        /\ ShownExp = 0 => Unsigned(text) = PointAfterFirst(ShownDigits)
        /\ ShownExp >= 1 => Unsigned(text) = TrailingZeros(ShownDigits, ShownExp)

C9_Table ==
    ShownIsNumber =>
        /\ ShownExp <= -4 => Unsigned(text) = Scientific(ShownDigits, ShownExp)
        /\ (ShownExp >= -3 /\ ShownExp <= -1) =>
                Unsigned(text) = ZeroPadded(ShownDigits, ShownExp)
        /\ ShownExp = 0 => Unsigned(text) = PointAfterFirst(ShownDigits)
        /\ ShownExp >= 1 => Unsigned(text) = TrailingZeros(ShownDigits, ShownExp)

\* C9: the notation follows the table with its second row read as [-3, -1]
\* (at -5 and -4 the first row applies), and printing leaves the printed value
\* as it was.
C9_Notation == []C9_Table /\ [][pc = "built" => expr' = expr]_vars

\* A value whose leading digit stands at 10^-4 was printed in scientific form.
C9_Witness ==
    /\ ShownIsNumber
    /\ ShownExp = -4
    /\ Unsigned(text) = Scientific(ShownDigits, -4)

\* C13: the printed text of a Decimal begins with '-' exactly when the value
\* is negative, and with one '-' only.
C13_SignCharacter ==
    ShownIsNumber =>
        /\ (text[1] = "-") <=> expr.v.f.neg
        /\ Unsigned(text)[1] # "-"

\* The first place of s that holds c, Len(s) + 1 when none does.
RECURSIVE IndexOf(_, _, _)
IndexOf(s, c, i) ==
    IF i > Len(s) \/ s[i] = c THEN i ELSE IndexOf(s, c, i + 1)

\* The first place of s that holds a digit other than 0.
RECURSIVE FirstNonZero(_, _)
FirstNonZero(s, i) ==
    IF i > Len(s) \/ (IsDigit(s[i]) /\ s[i] # "0") THEN i ELSE FirstNonZero(s, i + 1)

\* A digit string without its trailing zeros.
RECURSIVE StripZeros(_)
StripZeros(ds) ==
    IF ds # <<>> /\ ds[Len(ds)] = "0" THEN StripZeros(SubSeq(ds, 1, Len(ds) - 1)) ELSE ds

\* A numeral read as ordinary decimal notation: the mantissa before the e,
\* and the exponent after it (0 without one).
Mantissa(t) == SubSeq(t, 1, IndexOf(t, "e", 1) - 1)
Suffix(t) ==
    LET x == SubSeq(t, IndexOf(t, "e", 1) + 1, Len(t))
    IN  IF x = <<>> THEN 0
        ELSE IF x[1] = "-" THEN -TextToNat(Tail(x)) ELSE TextToNat(x)

\* The significant digits the numeral denotes, from its first digit other
\* than 0, and the power of ten of that digit.
DenotedDigits(t) ==
    StripZeros(SelectSeq(SubSeq(Mantissa(t), FirstNonZero(Mantissa(t), 1), Len(Mantissa(t))),
                         IsDigit))
DenotedExp(t) ==
    LET point == IndexOf(Mantissa(t), ".", 1)
        first == FirstNonZero(Mantissa(t), 1)
    IN  Suffix(t) + (IF first < point THEN point - first - 1 ELSE point - first)

\* C14: the magnitude the printed text denotes is the value rounded to 8
\* significant digits, d1.d2...d8 * 10^e, in every range of e.
C14_DenotesRounded ==
    ShownIsNumber =>
        /\ DenotedDigits(Unsigned(text)) = StripZeros(ShownDigits)
        /\ DenotedExp(Unsigned(text)) = ShownExp

(***************************************************************************)
(* The trig module (expr/trig.rs) over BigDecimal: <<int, scale>> denotes  *)
(* int * 10^-scale; sums, differences and products are exact.  The         *)
(* constants are the leading digits of the 100-digit ones and the          *)
(* coefficient lists their leading entries, in as many digits as TLC's     *)
(* integers allow; PI, PI_OVER_TWO and PI_OVER_FOUR keep the exact         *)
(* ratios 4 : 2 : 1 the digits in the source have.                         *)
(***************************************************************************)
Bd(int, scale) == <<int, scale>>
Max(a, b) == IF a >= b THEN a ELSE b

\* The integer of a at the scale s >= a's scale.
BdAt(a, s) == a[1] * Pow(10, s - a[2])

BdAdd(a, b) == Bd(BdAt(a, Max(a[2], b[2])) + BdAt(b, Max(a[2], b[2])), Max(a[2], b[2]))
BdSub(a, b) == Bd(BdAt(a, Max(a[2], b[2])) - BdAt(b, Max(a[2], b[2])), Max(a[2], b[2]))
BdMul(a, b) == Bd(a[1] * b[1], a[2] + b[2])
BdNeg(a) == Bd(-a[1], a[2])
BdGreater(a, b) == BdAt(a, Max(a[2], b[2])) > BdAt(b, Max(a[2], b[2]))
BdEq(a, b) == BdAt(a, Max(a[2], b[2])) = BdAt(b, Max(a[2], b[2]))
BdOne == Bd(1, 0)

PI == Bd(314, 2)
PI_OVER_TWO == Bd(157, 2)
PI_OVER_FOUR == Bd(785, 3)

SIN_COEFFS == <<Bd(-17, 2)>>
COS_COEFFS == <<Bd(-5, 1)>>

\* for coeff in COEFFS { current_mul *= &x_squared; out += coeff * &current_mul; }
RECURSIVE PolyLoop(_, _, _, _, _)
PolyLoop(coeffs, i, x_squared, current_mul, out) ==
    IF i > Len(coeffs) THEN out
    ELSE PolyLoop(coeffs, i + 1, x_squared, BdMul(current_mul, x_squared),
                  BdAdd(out, BdMul(coeffs[i], BdMul(current_mul, x_squared))))

sin_restricted(x) == PolyLoop(SIN_COEFFS, 1, BdMul(x, x), x, x)
cos_restricted(x) == PolyLoop(COS_COEFFS, 1, BdMul(x, x), BdOne, BdOne)

\* The digits of a natural number, counted (count_decimal_digits).
RECURSIVE CountDigits(_)
CountDigits(n) == IF n < 10 THEN 1 ELSE 1 + CountDigits(n \div 10)

\* while num < *den { scale += 1; num *= 10; }
RECURSIVE ShiftUp(_, _, _)
ShiftUp(num, den, scale) ==
    IF num < den THEN ShiftUp(num * 10, den, scale + 1) ELSE <<num, scale>>

\* while !remainder.is_zero() && precision < max_precision { .. }: one digit of
\* the quotient a turn; the remainder is kept times ten.
RECURSIVE DivLoop(_, _, _, _, _, _)
DivLoop(quotient, remainder, den, digits, scale, max_precision) ==
    IF remainder # 0 /\ digits < max_precision
    THEN DivLoop(quotient * 10 + remainder \div den, (remainder % den) * 10, den,
                 digits + 1, scale + 1, max_precision)
    ELSE <<quotient, remainder, scale>>

\* one more in the last place when the next digit is 5 or more
get_rounding_term(digit) == IF digit >= 5 THEN 1 ELSE 0

\* The quotient of two positive integers at a scale, to max_precision digits,
\* the last one rounded (bigdecimal's impl_division, behind `&x / &*PI`).
impl_division(num, den, scale, max_precision) ==
    IF num = 0 THEN Bd(0, 0)
    ELSE The({IF sh[1] % den = 0 THEN Bd(sh[1] \div den, sh[2])
              ELSE The({Bd(r[1] + (IF r[2] # 0 THEN get_rounding_term(r[2] \div den) ELSE 0), r[3])
                        : r \in {DivLoop(sh[1] \div den, (sh[1] % den) * 10, den,
                                         CountDigits(sh[1] \div den), sh[2], max_precision)}})
              : sh \in {ShiftUp(num, den, scale)}})

\* &x / &*PI for x >= 0: equal digits give one at once.
BdDiv(a, b) ==
    IF a[1] = b[1] THEN Bd(1, a[2] - b[2])
    ELSE impl_division(a[1], b[1], a[2] - b[2], DivPrecision)

\* with_scale_round(0, RoundingMode::Down).into_bigint_and_exponent().0
with_scale_round_down(a) ==
    IF a[2] >= 0 THEN a[1] \div Pow(10, a[2]) ELSE a[1] * Pow(10, -a[2])

\* multiples_of_pi: (&x / &*PI) cut to an integer, for x >= 0
MultiplesOfPi(x) == with_scale_round_down(BdDiv(x, PI))

\* The sign dropped: the value is returned as computed.
ApplySign_dropped(was_negative, val) == val

\* if was_negative { -val } else { val }
ApplySign(was_negative, val) == IF was_negative THEN BdNeg(val) ELSE val

\* trig::sin, with every intermediate value of the call.
SinTrace(x0) ==
    LET neg0 == x0[1] < 0
        x1 == IF neg0 THEN BdNeg(x0) ELSE x0
        k == MultiplesOfPi(x1)
        was_negative == IF k % 2 # 0 THEN ~neg0 ELSE neg0
        x2 == BdSub(x1, BdMul(PI, Bd(k, 0)))
        x3 == IF BdGreater(x2, PI_OVER_TWO) THEN BdSub(PI, x2) ELSE x2
        useCos == BdGreater(x3, PI_OVER_FOUR)
        arg == IF useCos THEN BdSub(PI_OVER_TWO, x3) ELSE x3
        val == IF useCos THEN cos_restricted(arg) ELSE sin_restricted(arg)
    IN  [negative |-> neg0, abs |-> x1, multiples_of_pi |-> k,
         was_negative |-> was_negative, reduced |-> x2, folded |-> x3,
         branch |-> IF useCos THEN "cos" ELSE "sin", arg |-> arg, val |-> val,
         ret |-> ApplySign(was_negative, val)]

sin(x) == SinTrace(x).ret

TrigInputs == {Bd(m, 2) : m \in -MaxTrig..MaxTrig}

InitTrig ==
    /\ pc = "called"
    /\ trigX \in TrigInputs
    /\ trigOut = Unused
    /\ ReplUnused
    /\ EvalUnused
    /\ OpUnused

\* a call of trig::sin
Sin ==
    /\ pc = "called"
    /\ trigOut' = SinTrace(trigX)
    /\ pc' = "returned"
    /\ UNCHANGED <<trigX, replVars, evalVars, opVars>>

NextTrig == Sin
SpecTrig == InitTrig /\ [][NextTrig]_vars

BdWithin(x, a, b) == ~BdGreater(a, x) /\ ~BdGreater(x, b)

\* C12: with k = floor(|x|/pi), the reduced argument |x| - k*pi lies in
\* [0, pi], the folded one in [0, pi/2], the argument of the polynomial in
\* [0, pi/4] in both branches (x itself to the sine polynomial when
\* x <= pi/4, pi/2 - x to the cosine polynomial otherwise), and the value
\* returned is the negated polynomial value exactly when x is negative XOR k
\* is odd.
C12_RangeReduction ==
    pc = "returned" =>
        /\ BdWithin(trigOut.abs, BdMul(PI, Bd(trigOut.multiples_of_pi, 0)),
                    BdMul(PI, Bd(trigOut.multiples_of_pi + 1, 0)))
        /\ BdEq(trigOut.reduced,
                BdSub(trigOut.abs, BdMul(PI, Bd(trigOut.multiples_of_pi, 0))))
        /\ BdWithin(trigOut.reduced, Bd(0, 0), PI)
        /\ BdWithin(trigOut.folded, Bd(0, 0), PI_OVER_TWO)
        /\ BdWithin(trigOut.arg, Bd(0, 0), PI_OVER_FOUR)
        /\ trigOut.branch = "sin" <=> ~BdGreater(trigOut.folded, PI_OVER_FOUR)
        /\ trigOut.branch = "sin" => BdEq(trigOut.arg, trigOut.folded)
        /\ trigOut.branch = "cos" =>
              BdEq(trigOut.arg, BdSub(PI_OVER_TWO, trigOut.folded))
        /\ BdEq(trigOut.ret,
                IF trigOut.negative # (trigOut.multiples_of_pi % 2 = 1)
                THEN BdNeg(trigOut.val) ELSE trigOut.val)

====
